---- MODULE Spec2Model ----
(***************************************************************************)
(* Model of ff/ff_encodings.py: the fermion-to-qubit encoding generators,  *)
(* the symbolic Pauli algebra and the matrix elevation helpers.            *)
(*                                                                         *)
(* Python values are modelled as follows.                                  *)
(*   - a str is a sequence of one-character strings ("XI" is <<"X","I">>); *)
(*   - a number is a pair <<re, im>> of integers (1j is <<0, 1>>);         *)
(*   - a call either returns ([status |-> "ok", val |-> v]) or raises      *)
(*     ([status |-> "ValueError"], [status |-> "KeyError"]);               *)
(*   - nested lists of numbers handed to numpy are tagged trees, a leaf    *)
(*     [kind |-> "num", v |-> <<re, im>>] or a node                        *)
(*     [kind |-> "list", items |-> <<...>>].                               *)
(* The module has no state of its own and every function is pure: the     *)
(* state of the model is one call made by a client, its arguments and     *)
(* what the call gave back.                                                *)
(***************************************************************************)
EXTENDS Integers, Sequences, FiniteSets, TLC

VARIABLES fn, args, ret

vars == <<fn, args, ret>>

\* ------------------------------------------------------------------ bounds
MaxN == 4

MaxLen == 2

MaxDirect == 2

\* ----------------------------------------------------------------- helpers
PauliSymbols == {"I", "X", "Y", "Z"}

InvalidSymbols == {"Q"}

Return(v) == [status |-> "ok", val |-> v]

Raise(e) == [status |-> e]

Min(a, b) == IF a <= b THEN a ELSE b

\* s * k on a str: k copies of s, the empty str when k <= 0
RECURSIVE Repeat(_, _)
Repeat(s, k) == IF k <= 0 THEN <<>> ELSE s \o Repeat(s, k - 1)

\* s[:k] for k >= 0: the first k characters, or all of s when it is shorter
Slice(s, k) == SubSeq(s, 1, Min(k, Len(s)))

\* mutant: the phase is assigned instead of multiplied in
cmul_assign(a, b) == b

\* product of two complex numbers
cmul(a, b) == <<a[1] * b[1] - a[2] * b[2], a[1] * b[2] + a[2] * b[1]>>

\* ------------------------------------------------------ encoding generators
\* mutant: the parity prefix is left out (identities instead of Z)
JW_right_core_noparity(i) == Repeat(<<"I">>, i)

JW_right_core(i) == Repeat(<<"Z">>, i)

\* mutant: the identity fill is one too long
JW_left_core_long(num_qubits, i) == Repeat(<<"I">>, num_qubits - i)

JW_left_core(num_qubits, i) == Repeat(<<"I">>, num_qubits - i - 1)

RECURSIVE JW_loop(_, _, _)
JW_loop(num_qubits, i, encoding) ==
    IF i >= num_qubits THEN encoding
    ELSE JW_loop(num_qubits, i + 1,
                 encoding \o
                 << JW_right_core(i) \o <<"X">> \o JW_left_core(num_qubits, i),
                    JW_right_core(i) \o <<"Y">> \o JW_left_core(num_qubits, i) >>)

Jordan_Wigner_encoding(num_qubits) == JW_loop(num_qubits, 0, <<>>)

\* the three stubs: a loop whose body is pass, then the empty list is returned
RECURSIVE pass_loop(_, _, _)
pass_loop(num_qubits, i, encoding) ==
    IF i >= num_qubits THEN encoding
    ELSE pass_loop(num_qubits, i + 1, encoding)

Bravyi_Kitaev_encoding(num_qubits) == pass_loop(num_qubits, 0, <<>>)

Ternary_Tree_encoding(num_qubits) == pass_loop(num_qubits, 0, <<>>)

Serpinski_Tree_encoding(num_qubits) == pass_loop(num_qubits, 0, <<>>)

ZI_string(num_qubits) == Repeat(<<"Z", "I">>, num_qubits \div 2)

\* mutant: the background is one period short on even registers
IZ_string_short(num_qubits) == Repeat(<<"I", "Z">>, (num_qubits - 1) \div 2)

IZ_string(num_qubits) == Repeat(<<"I", "Z">>, num_qubits \div 2)

RECURSIVE BJW_loop(_, _, _)
BJW_loop(num_qubits, i, encoding) ==
    IF i >= num_qubits THEN encoding
    ELSE LET right == Slice(IZ_string(num_qubits), num_qubits - i - 1)
             left  == IF i % 2 = 0 THEN Slice(IZ_string(num_qubits), i)
                                   ELSE Slice(ZI_string(num_qubits), i)
         IN  BJW_loop(num_qubits, i + 1,
                      encoding \o << left \o <<"X">> \o right,
                                     left \o <<"Y">> \o right >>)

Balanced_Jordan_Wigner_encoding(num_qubits) == BJW_loop(num_qubits, 0, <<>>)

\* numpy.ceil(num_qubits/2) converted with int()
ceil_half(num_qubits) == (num_qubits + 1) \div 2

RECURSIVE OL_loop(_, _, _)
OL_loop(num_qubits, i, encoding) ==
    IF i >= num_qubits \div 2 THEN encoding
    ELSE LET left_core_1  == Repeat(Repeat(<<"I">>, 2), i)
             right_core_1 == Repeat(<<"I">>, num_qubits - 2 * i - 1)
             left_core_2  == Repeat(<<"I">>, 2 * i + 1)
             right_core_2 == Repeat(<<"I">>, num_qubits - 2 * i - 2)
             right_core   == Repeat(<<"Z">>, i)
             left_core    == Repeat(<<"I">>, ceil_half(num_qubits) - i - 1)
         IN  OL_loop(num_qubits, i + 1,
               encoding \o
               << left_core_1 \o <<"X">> \o right_core_1 \o right_core \o <<"X">> \o left_core,
                  left_core_1 \o <<"Y">> \o right_core_1 \o right_core \o <<"X">> \o left_core,
                  left_core_1 \o <<"Z">> \o right_core_1 \o right_core \o <<"X">> \o left_core,
                  left_core_2 \o <<"X">> \o right_core_2 \o right_core \o <<"Y">> \o left_core,
                  left_core_2 \o <<"Y">> \o right_core_2 \o right_core \o <<"Y">> \o left_core,
                  left_core_2 \o <<"Z">> \o right_core_2 \o right_core \o <<"Y">> \o left_core >>)

One_Local_encoding(num_qubits) == OL_loop(num_qubits, 0, <<>>)

\* ------------------------------------------------------ single-Pauli algebra
One == <<1, 0>>

PlusI == <<0, 1>>

MinusI == <<0, -1>>

\* mutant: the sign of X.Z is that of Z.X
pauli_mult_sign ==
    (<<"X", "Y">> :> <<PlusI, "Z">>)  @@
    (<<"Y", "X">> :> <<MinusI, "Z">>) @@
    (<<"Y", "Z">> :> <<PlusI, "X">>)  @@
    (<<"Z", "Y">> :> <<MinusI, "X">>) @@
    (<<"Z", "X">> :> <<PlusI, "Y">>)  @@
    (<<"X", "Z">> :> <<PlusI, "Y">>)

\* the dictionary of products of two different non-identity Paulis
pauli_mult ==
    (<<"X", "Y">> :> <<PlusI, "Z">>)  @@
    (<<"Y", "X">> :> <<MinusI, "Z">>) @@
    (<<"Y", "Z">> :> <<PlusI, "X">>)  @@
    (<<"Z", "Y">> :> <<MinusI, "X">>) @@
    (<<"Z", "X">> :> <<PlusI, "Y">>)  @@
    (<<"X", "Z">> :> <<MinusI, "Y">>)

\* a tuple (phase, symbol) is <<phase, symbol>>; t[2] is Python's t[1]
multiply_paulis(p1, p2, phase) ==
    IF phase = FALSE /\ p1 = "I" THEN Return(p2)
    ELSE IF phase = FALSE /\ p2 = "I" THEN Return(p1)
    ELSE IF phase = FALSE /\ p1 = p2 THEN Return("I")
    ELSE IF phase # FALSE /\ p1 = "I" THEN Return(<<One, p2>>)
    ELSE IF phase # FALSE /\ p2 = "I" THEN Return(<<One, p1>>)
    ELSE IF phase # FALSE /\ p1 = p2 THEN Return(<<One, "I">>)
    ELSE IF <<p1, p2>> \notin DOMAIN pauli_mult THEN Raise("KeyError")
    ELSE IF phase = FALSE THEN Return(pauli_mult[<<p1, p2>>][2])
    ELSE Return(pauli_mult[<<p1, p2>>])

\* ------------------------------------------------------ Pauli string algebra
\* mutant: only a shorter first operand is rejected
LengthMismatch_shorter(pauli1, pauli2) == Len(pauli1) < Len(pauli2)

LengthMismatch(pauli1, pauli2) == Len(pauli1) # Len(pauli2)

\* the loop over zip(pauli1, pauli2), from pair k on; acc carries the locals
\* result and total_phase, the number of multiply_paulis calls made so far
\* and the exception, if one was raised
RECURSIVE zip_loop(_, _, _, _, _)
zip_loop(pauli1, pauli2, return_phase, k, acc) ==
    IF k > Min(Len(pauli1), Len(pauli2)) THEN acc
    ELSE LET r == multiply_paulis(pauli1[k], pauli2[k], return_phase)
         IN  IF r.status # "ok"
             THEN [acc EXCEPT !.status = r.status, !.calls = @ + 1]
             ELSE IF return_phase
             THEN zip_loop(pauli1, pauli2, return_phase, k + 1,
                           [acc EXCEPT !.total_phase = cmul(@, r.val[1]),
                                       !.result = Append(@, r.val[2]),
                                       !.calls = @ + 1])
             ELSE zip_loop(pauli1, pauli2, return_phase, k + 1,
                           [acc EXCEPT !.result = Append(@, r.val),
                                       !.calls = @ + 1])

\* calls: how many per-site multiplications the call performed
multiply_symbolic_paulis(pauli1, pauli2, return_phase) ==
    IF LengthMismatch(pauli1, pauli2)
    THEN [status |-> "ValueError", calls |-> 0]
    ELSE LET acc == zip_loop(pauli1, pauli2, return_phase, 1,
                             [status |-> "ok", result |-> <<>>,
                              total_phase |-> One, calls |-> 0])
         IN  IF acc.status # "ok"
             THEN [status |-> acc.status, calls |-> acc.calls]
             ELSE IF return_phase
             THEN [status |-> "ok", val |-> <<acc.total_phase, acc.result>>,
                   calls |-> acc.calls]
             ELSE [status |-> "ok", val |-> acc.result, calls |-> acc.calls]

\* -------------------------------------------------------- matrix elevation
Num(re, im) == [kind |-> "num", v |-> <<re, im>>]

List(items) == [kind |-> "list", items |-> items]

\* mutant: Y with the signs of its two entries exchanged
pauli_matrices_sign ==
    [ I |-> List(<< List(<<Num(1, 0), Num(0, 0)>>), List(<<Num(0, 0), Num(1, 0)>>) >>),
      X |-> List(<< List(<<Num(0, 0), Num(1, 0)>>), List(<<Num(1, 0), Num(0, 0)>>) >>),
      Y |-> List(<< List(<<Num(0, 0), Num(0, 1)>>), List(<<Num(0, -1), Num(0, 0)>>) >>),
      Z |-> List(<< List(<<Num(1, 0), Num(0, 0)>>), List(<<Num(0, 0), Num(-1, 0)>>) >>) ]

pauli_matrices ==
    [ I |-> List(<< List(<<Num(1, 0), Num(0, 0)>>), List(<<Num(0, 0), Num(1, 0)>>) >>),
      X |-> List(<< List(<<Num(0, 0), Num(1, 0)>>), List(<<Num(1, 0), Num(0, 0)>>) >>),
      Y |-> List(<< List(<<Num(0, 0), Num(0, -1)>>), List(<<Num(0, 1), Num(0, 0)>>) >>),
      Z |-> List(<< List(<<Num(1, 0), Num(0, 0)>>), List(<<Num(0, 0), Num(-1, 0)>>) >>) ]

\* the nested list comprehension; a character that is no key raises KeyError
symbolic_to_matrix(symbolic_Pauli) ==
    IF \E s \in 1..Len(symbolic_Pauli) : \E c \in 1..Len(symbolic_Pauli[s]) :
           symbolic_Pauli[s][c] \notin DOMAIN pauli_matrices
    THEN Raise("KeyError")
    ELSE Return(List([s \in 1..Len(symbolic_Pauli) |->
                        List([c \in 1..Len(symbolic_Pauli[s]) |->
                                pauli_matrices[symbolic_Pauli[s][c]]])]))

\* the shape numpy gives the array built from a rectangular nested list
RECURSIVE Shape(_)
Shape(x) ==
    IF x.kind = "num" THEN <<>>
    ELSE IF x.items = <<>> THEN <<0>>
    ELSE <<Len(x.items)>> \o Shape(x.items[1])

np_array(x) == [shape |-> Shape(x), data |-> x]

\* numpy.kron of the entries of two arrays of the same number of dimensions:
\* entry i*len(b)+j along each axis is the product of a's entry i and b's
\* entry j
RECURSIVE kron_data(_, _)
kron_data(a, b) ==
    IF a.kind = "num" THEN [kind |-> "num", v |-> cmul(a.v, b.v)]
    ELSE List([k \in 1..(Len(a.items) * Len(b.items)) |->
                 kron_data(a.items[((k - 1) \div Len(b.items)) + 1],
                           b.items[((k - 1) % Len(b.items)) + 1])])

np_kron(a, b) ==
    LET data == kron_data(a.data, b.data)
    IN  [shape |-> Shape(data), data |-> data]

RECURSIVE kpa_loop(_, _, _)
kpa_loop(symbolic_pauli, k, result) ==
    IF k > Len(symbolic_pauli.items) THEN result
    ELSE kpa_loop(symbolic_pauli, k + 1,
                  np_kron(result, np_array(symbolic_pauli.items[k])))

kpa(symbolic_pauli) ==
    IF symbolic_pauli.items = <<>> THEN Raise("ValueError")
    ELSE Return(kpa_loop(symbolic_pauli, 2, np_array(symbolic_pauli.items[1])))

\* ------------------------------------------------------------------ inputs
StringsOver(S, maxlen) == UNION {[1..l -> S] : l \in 0..maxlen}

\* the encodings a client elevates: the generated ones and one-string lists
ElevationInputs ==
    {<<s>> : s \in StringsOver(PauliSymbols, MaxLen)}
    \cup {Jordan_Wigner_encoding(n) : n \in 1..MaxLen}
    \cup {Balanced_Jordan_Wigner_encoding(n) : n \in 1..MaxLen}
    \cup {One_Local_encoding(n) : n \in 1..MaxLen}

\* --------------------------------------------------------------- the state
Init ==
    /\ fn = "none"
    /\ args = <<>>
    /\ ret = [status |-> "none"]

Call_Jordan_Wigner_encoding ==
    /\ fn = "none"
    /\ \E n \in 1..MaxN :
            /\ fn' = "Jordan_Wigner_encoding"
            /\ args' = [num_qubits |-> n]
            /\ ret' = Return(Jordan_Wigner_encoding(n))

Call_Bravyi_Kitaev_encoding ==
    /\ fn = "none"
    /\ \E n \in 1..MaxN :
            /\ fn' = "Bravyi_Kitaev_encoding"
            /\ args' = [num_qubits |-> n]
            /\ ret' = Return(Bravyi_Kitaev_encoding(n))

Call_Ternary_Tree_encoding ==
    /\ fn = "none"
    /\ \E n \in 1..MaxN :
            /\ fn' = "Ternary_Tree_encoding"
            /\ args' = [num_qubits |-> n]
            /\ ret' = Return(Ternary_Tree_encoding(n))

Call_Serpinski_Tree_encoding ==
    /\ fn = "none"
    /\ \E n \in 1..MaxN :
            /\ fn' = "Serpinski_Tree_encoding"
            /\ args' = [num_qubits |-> n]
            /\ ret' = Return(Serpinski_Tree_encoding(n))

Call_Balanced_Jordan_Wigner_encoding ==
    /\ fn = "none"
    /\ \E n \in 1..MaxN :
            /\ fn' = "Balanced_Jordan_Wigner_encoding"
            /\ args' = [num_qubits |-> n]
            /\ ret' = Return(Balanced_Jordan_Wigner_encoding(n))

Call_One_Local_encoding ==
    /\ fn = "none"
    /\ \E n \in 1..MaxN :
            /\ fn' = "One_Local_encoding"
            /\ args' = [num_qubits |-> n]
            /\ ret' = Return(One_Local_encoding(n))

Call_multiply_paulis ==
    /\ fn = "none"
    /\ \E p1 \in PauliSymbols \cup InvalidSymbols,
           p2 \in PauliSymbols \cup InvalidSymbols,
           phase \in BOOLEAN :
            /\ fn' = "multiply_paulis"
            /\ args' = [p1 |-> p1, p2 |-> p2, phase |-> phase]
            /\ ret' = multiply_paulis(p1, p2, phase)

Call_multiply_symbolic_paulis ==
    /\ fn = "none"
    /\ \E pauli1 \in StringsOver(PauliSymbols \cup InvalidSymbols, MaxLen),
           pauli2 \in StringsOver(PauliSymbols \cup InvalidSymbols, MaxLen),
           return_phase \in BOOLEAN :
            /\ fn' = "multiply_symbolic_paulis"
            /\ args' = [pauli1 |-> pauli1, pauli2 |-> pauli2,
                        return_phase |-> return_phase]
            /\ ret' = multiply_symbolic_paulis(pauli1, pauli2, return_phase)

Call_symbolic_to_matrix ==
    /\ fn = "none"
    /\ \E enc \in ElevationInputs
                   \cup {<<s>> : s \in StringsOver(PauliSymbols \cup InvalidSymbols, MaxLen)} :
            /\ fn' = "symbolic_to_matrix"
            /\ args' = [symbolic_Pauli |-> enc]
            /\ ret' = symbolic_to_matrix(enc)

\* kpa(symbolic_to_matrix(enc)[k]): the factor list of one string is reduced
Call_kpa_of_string ==
    /\ fn = "none"
    /\ \E enc \in ElevationInputs : \E k \in 1..Len(enc) :
            /\ fn' = "kpa"
            /\ args' = [symbolic_Pauli |-> enc, index |-> k,
                        symbolic_pauli |-> symbolic_to_matrix(enc).val.items[k]]
            /\ ret' = kpa(symbolic_to_matrix(enc).val.items[k])

\* kpa(symbolic_to_matrix(enc)): the whole output of the elevation is reduced
Call_kpa_of_encoding ==
    /\ fn = "none"
    /\ \E enc \in ElevationInputs \cup {<<>>} :
            /\ Len(enc) <= MaxDirect
            /\ fn' = "kpa"
            /\ args' = [symbolic_Pauli |-> enc, index |-> 0,
                        symbolic_pauli |-> symbolic_to_matrix(enc).val]
            /\ ret' = kpa(symbolic_to_matrix(enc).val)

Next ==
    \/ Call_multiply_paulis
    \/ Call_multiply_symbolic_paulis
    \/ Call_symbolic_to_matrix
    \/ Call_kpa_of_string
    \/ Call_kpa_of_encoding
    \/ Call_Jordan_Wigner_encoding
    \/ Call_Bravyi_Kitaev_encoding
    \/ Call_Ternary_Tree_encoding
    \/ Call_Serpinski_Tree_encoding
    \/ Call_Balanced_Jordan_Wigner_encoding
    \/ Call_One_Local_encoding

Spec == Init /\ [][Next]_vars

\* ------------------------------------------------- reference Pauli product
\* The Pauli group, stated apart from the code: X, Y, Z in cyclic order, the
\* phase of a product as a power of i.
CycleIndex(p) == CASE p = "X" -> 0 [] p = "Y" -> 1 [] p = "Z" -> 2

RefSymbol(a, b) ==
    IF a = "I" THEN b
    ELSE IF b = "I" THEN a
    ELSE IF a = b THEN "I"
    ELSE CHOOSE c \in {"X", "Y", "Z"} : c # a /\ c # b

RefExponent(a, b) ==
    IF a = "I" \/ b = "I" \/ a = b THEN 0
    ELSE IF (CycleIndex(b) - CycleIndex(a)) % 3 = 1 THEN 1
    ELSE 3

IPower(e) ==
    CASE e % 4 = 0 -> <<1, 0>>
      [] e % 4 = 1 -> <<0, 1>>
      [] e % 4 = 2 -> <<-1, 0>>
      [] e % 4 = 3 -> <<0, -1>>

RECURSIVE RefStringExponent(_, _, _)
RefStringExponent(a, b, k) ==
    IF k > Len(a) THEN 0
    ELSE RefExponent(a[k], b[k]) + RefStringExponent(a, b, k + 1)

IsPauliString(s) == \A k \in 1..Len(s) : s[k] \in PauliSymbols

Generators ==
    {"Jordan_Wigner_encoding", "Balanced_Jordan_Wigner_encoding",
     "One_Local_encoding", "Bravyi_Kitaev_encoding", "Ternary_Tree_encoding",
     "Serpinski_Tree_encoding"}

\* ------------------------------------------------------------------ claims

\* C1: for all symbols p1, p2 in {I,X,Y,Z}, multiply_paulis(p1, p2,
\* phase=True) returns the reference Pauli product (phase 1 and the other
\* operand when one is I, (1, I) when they are equal, else the third symbol
\* with +i in cyclic order and -i in the reverse order), and with phase=False
\* the symbol of that pair; the symbol is in {I,X,Y,Z} and the phase a
\* fourth root of unity.
C1_MultiplyPaulisIsPauliProduct ==
    (fn = "multiply_paulis" /\ args.p1 \in PauliSymbols /\ args.p2 \in PauliSymbols)
    => /\ ret.status = "ok"
       /\ args.phase =>
            /\ ret.val = <<IPower(RefExponent(args.p1, args.p2)),
                           RefSymbol(args.p1, args.p2)>>
            /\ ret.val[1] \in {<<1, 0>>, <<-1, 0>>, <<0, 1>>, <<0, -1>>}
            /\ ret.val[2] \in PauliSymbols
       /\ ~args.phase =>
            /\ ret.val = RefSymbol(args.p1, args.p2)
            /\ ret.val \in PauliSymbols

C1_Witness ==
    /\ fn = "multiply_paulis"
    /\ args = [p1 |-> "X", p2 |-> "Z", phase |-> TRUE]
    /\ ret = [status |-> "ok", val |-> <<<<0, -1>>, "Y">>]

\* C2: for Pauli strings a, b over {I,X,Y,Z} of the same length L (0
\* included), multiply_symbolic_paulis returns a string of length L whose
\* symbol at each position is the product of the operands' symbols there,
\* and with return_phase=True also the product of the per-position phases;
\* "XY" times "YX" is (1, "ZZ").
C2_StringProductIsSitewise ==
    (/\ fn = "multiply_symbolic_paulis"
     /\ IsPauliString(args.pauli1) /\ IsPauliString(args.pauli2)
     /\ Len(args.pauli1) = Len(args.pauli2))
    => /\ ret.status = "ok"
       /\ LET r == IF args.return_phase THEN ret.val[2] ELSE ret.val
          IN  /\ Len(r) = Len(args.pauli1)
              /\ \A k \in 1..Len(r) :
                     r[k] = RefSymbol(args.pauli1[k], args.pauli2[k])
       /\ args.return_phase =>
            ret.val[1] = IPower(RefStringExponent(args.pauli1, args.pauli2, 1))
       /\ (/\ args.pauli1 = <<"X", "Y">> /\ args.pauli2 = <<"Y", "X">>
           /\ args.return_phase)
          => ret.val = << <<1, 0>>, <<"Z", "Z">> >>

C2_Witness ==
    /\ fn = "multiply_symbolic_paulis"
    /\ args = [pauli1 |-> <<"X", "Y">>, pauli2 |-> <<"Y", "X">>,
               return_phase |-> TRUE]
    /\ ret.status = "ok"
    /\ ret.val = << <<1, 0>>, <<"Z", "Z">> >>

\* C3: Jordan_Wigner_encoding(n) is a list of 2n strings of length n; the
\* string at list position 2i has Z at every index below i, X at index i and
\* I above it, the string at position 2i+1 has Y at index i instead; for
\* n = 2 the list is XI, YI, ZX, ZY.
C3_JordanWignerShape ==
    fn = "Jordan_Wigner_encoding"
    => LET n == args.num_qubits
           e == ret.val
       IN  /\ ret.status = "ok"
           /\ Len(e) = 2 * n
           /\ \A s \in 1..Len(e) : Len(e[s]) = n
           /\ \A i \in 0..(n - 1) : \A k \in 0..(n - 1) :
                /\ e[2 * i + 1][k + 1] =
                     (IF k < i THEN "Z" ELSE IF k = i THEN "X" ELSE "I")
                /\ e[2 * i + 2][k + 1] =
                     (IF k < i THEN "Z" ELSE IF k = i THEN "Y" ELSE "I")
           /\ n = 2 => e = << <<"X", "I">>, <<"Y", "I">>,
                              <<"Z", "X">>, <<"Z", "Y">> >>

C3_Witness ==
    /\ fn = "Jordan_Wigner_encoding"
    /\ args.num_qubits = 3
    /\ ret.val[5] = <<"Z", "Z", "X">>
    /\ ret.val[6] = <<"Z", "Z", "Y">>

\* C4 (the claim as stated): every string returned by any of the six
\* generators for a register of n >= 1 qubits has length exactly n.
C4_EveryStringHasRegisterLength ==
    (fn \in Generators /\ args.num_qubits >= 1)
    => \A s \in 1..Len(ret.val) : Len(ret.val[s]) = args.num_qubits

\* C5 (the claim as stated): when an operand of multiply_paulis is outside
\* {I,X,Y,Z} the call raises, whatever the phase flag and the other operand;
\* it never returns.
C5_InvalidSymbolRaises ==
    (/\ fn = "multiply_paulis"
     /\ (args.p1 \notin PauliSymbols \/ args.p2 \notin PauliSymbols))
    => ret.status # "ok"

\* C6: for two strings of different lengths multiply_symbolic_paulis raises
\* the length error, for both values of return_phase, before any per-site
\* multiplication, and returns neither a string nor a phase.
C6_LengthMismatchRaisesFirst ==
    (fn = "multiply_symbolic_paulis" /\ Len(args.pauli1) # Len(args.pauli2))
    => /\ ret.status = "ValueError"
       /\ ret.calls = 0
       /\ "val" \notin DOMAIN ret

C6_Witness ==
    /\ fn = "multiply_symbolic_paulis"
    /\ args.pauli1 = <<"X", "Y">>
    /\ args.pauli2 = <<"X">>
    /\ ~args.return_phase
    /\ ret.status = "ValueError"

\* C7 (the claim as stated): Bravyi_Kitaev_encoding(n), Ternary_Tree_encoding(n)
\* and Serpinski_Tree_encoding(n) return 2n strings (so a non-empty list),
\* each of length n over {I,X,Y,Z}.
C7_TreeEncodingsReturnMajoranas ==
    (/\ fn \in {"Bravyi_Kitaev_encoding", "Ternary_Tree_encoding",
                "Serpinski_Tree_encoding"}
     /\ args.num_qubits >= 1)
    => /\ ret.status = "ok"
       /\ Len(ret.val) = 2 * args.num_qubits
       /\ \A s \in 1..Len(ret.val) :
            Len(ret.val[s]) = args.num_qubits /\ IsPauliString(ret.val[s])

\* the canonical 2x2 matrix of a symbol, row by row
CanonicalEntries(s) ==
    CASE s = "I" -> << <<1, 0>>, <<0, 0>>, <<0, 0>>, <<1, 0>> >>
      [] s = "X" -> << <<0, 0>>, <<1, 0>>, <<1, 0>>, <<0, 0>> >>
      [] s = "Y" -> << <<0, 0>>, <<0, -1>>, <<0, 1>>, <<0, 0>> >>
      [] s = "Z" -> << <<1, 0>>, <<0, 0>>, <<0, 0>>, <<-1, 0>> >>

CanonicalMatrix(s) ==
    LET c == CanonicalEntries(s)
        leaf(z) == [kind |-> "num", v |-> z]
        row(x, y) == [kind |-> "list", items |-> <<leaf(x), leaf(y)>>]
    IN  [kind |-> "list", items |-> <<row(c[1], c[2]), row(c[3], c[4])>>]

\* C8 (the claim as stated): kpa applied directly to symbolic_to_matrix([s])
\* is the canonical 2x2 matrix of s, for s = I, X, Y, Z.
C8_DirectRoundTripIsCanonical ==
    \A s \in PauliSymbols :
        (fn = "kpa" /\ args.index = 0 /\ args.symbolic_Pauli = << <<s>> >>)
        => /\ ret.status = "ok"
           /\ ret.val.shape = <<2, 2>>
           /\ ret.val.data = CanonicalMatrix(s)

\* C8 (amended): kpa applied to the factor list of the one string,
\* symbolic_to_matrix([s])[0], is the canonical 2x2 matrix of s; applied to
\* the whole output symbolic_to_matrix([s]) it is the array of shape (1,2,2)
\* whose only block is that matrix.
C8_RoundTripOfFactorList ==
    \A s \in PauliSymbols :
        /\ (fn = "kpa" /\ args.index = 1 /\ args.symbolic_Pauli = << <<s>> >>)
           => /\ ret.status = "ok"
              /\ ret.val.shape = <<2, 2>>
              /\ ret.val.data = CanonicalMatrix(s)
        /\ (fn = "kpa" /\ args.index = 0 /\ args.symbolic_Pauli = << <<s>> >>)
           => /\ ret.status = "ok"
              /\ ret.val.shape = <<1, 2, 2>>
              /\ ret.val.data = [kind |-> "list", items |-> <<CanonicalMatrix(s)>>]

C8_Witness ==
    /\ fn = "kpa"
    /\ args.index = 1
    /\ args.symbolic_Pauli = << <<"Y">> >>
    /\ ret.status = "ok"
    /\ ret.val.shape = <<2, 2>>
    /\ ret.val.data.items[2].items[1].v = <<0, 1>>

\* the periodic backgrounds IZIZ... and ZIZI..., by 0-based position
IZ_at(k) == IF k % 2 = 0 THEN "I" ELSE "Z"

ZI_at(k) == IF k % 2 = 0 THEN "Z" ELSE "I"

\* C9: Balanced_Jordan_Wigner_encoding(n) is a list of 2n strings; those at
\* positions 2i and 2i+1 have X and Y at index i and agree elsewhere; left of
\* index i stand the first i symbols of IZIZ... (i even) or ZIZI... (i odd),
\* right of it the first n-i-1 symbols of IZIZ...; for n = 4 the X rows are
\* XIZI, ZXIZ, IZXI, ZIZX.
C9_BalancedJordanWignerShape ==
    fn = "Balanced_Jordan_Wigner_encoding"
    => LET n == args.num_qubits
           e == ret.val
       IN  /\ ret.status = "ok"
           /\ Len(e) = 2 * n
           /\ \A s \in 1..Len(e) : Len(e[s]) = n
           /\ \A i \in 0..(n - 1) :
                LET x == e[2 * i + 1]
                    y == e[2 * i + 2]
                IN  /\ x[i + 1] = "X"
                    /\ y[i + 1] = "Y"
                    /\ \A k \in 0..(n - 1) : k # i => x[k + 1] = y[k + 1]
                    /\ \A k \in 0..(i - 1) :
                         x[k + 1] = (IF i % 2 = 0 THEN IZ_at(k) ELSE ZI_at(k))
                    /\ \A k \in 0..(n - i - 2) : x[i + 2 + k] = IZ_at(k)
           /\ n = 4 => /\ e[1] = <<"X", "I", "Z", "I">>
                       /\ e[3] = <<"Z", "X", "I", "Z">>
                       /\ e[5] = <<"I", "Z", "X", "I">>
                       /\ e[7] = <<"Z", "I", "Z", "X">>

C9_Witness ==
    /\ fn = "Balanced_Jordan_Wigner_encoding"
    /\ args.num_qubits = 3
    /\ ret.val[3] = <<"Z", "X", "I">>
    /\ ret.val[6] = <<"I", "Z", "Y">>

\* C10: any two strings at different positions of Jordan_Wigner_encoding(n)
\* anticommute under multiply_symbolic_paulis (the two products are the same
\* string with opposite phases), and each string times itself is phase 1 and
\* the all-I string of length n.
C10_JordanWignerAnticommutes ==
    fn = "Jordan_Wigner_encoding"
    => LET n == args.num_qubits
           e == ret.val
       IN  \A a \in 1..Len(e) : \A b \in 1..Len(e) :
             LET ab == multiply_symbolic_paulis(e[a], e[b], TRUE)
                 ba == multiply_symbolic_paulis(e[b], e[a], TRUE)
             IN  /\ ab.status = "ok"
                 /\ ba.status = "ok"
                 /\ a # b => /\ ab.val[2] = ba.val[2]
                             /\ ab.val[1] = <<-ba.val[1][1], -ba.val[1][2]>>
                 /\ a = b => ab.val = << <<1, 0>>, [k \in 1..n |-> "I"] >>

C10_Witness ==
    /\ fn = "Jordan_Wigner_encoding"
    /\ args.num_qubits = 2
    /\ multiply_symbolic_paulis(ret.val[1], ret.val[3], TRUE).val
         = << <<0, -1>>, <<"Y", "X">> >>
    /\ multiply_symbolic_paulis(ret.val[3], ret.val[1], TRUE).val
         = << <<0, 1>>, <<"Y", "X">> >>

====
